---- MODULE Spec2Model ----
(***************************************************************************)
(* A model of bigquery_helper.BigQueryHelper (src/src/bigquery_helper/     *)
(* helper.py): the helper object with its client and credentials, the      *)
(* pass-through service operations, and the schema-driven DataFrame        *)
(* preparation (_prepare_dataframe / _cast_column).                        *)
(*                                                                         *)
(* Text values are sequences of one-character strings, so that parsing a   *)
(* number or a date out of a text, and formatting a number as text, are    *)
(* computed and not assumed.  A cell is a record [k, s, n, f]: k is the    *)
(* kind of value, s its text, n its integer part (or date code yyyymmdd),  *)
(* f its tenths digit (or the nanoseconds past midnight of a timestamp).   *)
(***************************************************************************)
EXTENDS Integers, Sequences, FiniteSets, TLC

VARIABLES
    \* the helper object (helper.py:26-28): whether it exists, its fields
    constructed, project_id, credentials, client,
    \* the last operation applied to the helper: its name, arguments, the
    \* outcomes of the external calls it made, how it ended, and the
    \* external calls it made, in order
    lastOp,
    \* the DataFrame objects by identity (heap[1] is the caller's input),
    \* the caller's schema, the outcome of the last _prepare_dataframe call
    \* and the number of calls made
    heap, schema, ret, calls

helperVars  == <<constructed, project_id, credentials, client, lastOp>>
conformVars == <<heap, schema, ret, calls>>
vars        == <<constructed, project_id, credentials, client, lastOp,
                 heap, schema, ret, calls>>

----------------------------------------------------------------------------
(* Bounds of the model.                                                    *)

MaxRows   == 2      \* rows of a one-column input table
MaxCols   == 2      \* columns of a many-column input table
MaxFields == 2      \* fields of the schema of a many-column input table
MaxCalls  == 2      \* _prepare_dataframe calls on the same inputs

----------------------------------------------------------------------------
(* Cell values.                                                            *)

Str(s)     == [k |-> "str",        s |-> s,    n |-> 0, f |-> 0]
PyInt(i)   == [k |-> "int",        s |-> <<>>, n |-> i, f |-> 0]
PyNone     == [k |-> "None",       s |-> <<>>, n |-> 0, f |-> 0]
I64(i)     == [k |-> "Int64",      s |-> <<>>, n |-> i, f |-> 0]
NA         == [k |-> "NA",         s |-> <<>>, n |-> 0, f |-> 0]
F64(i, t)  == [k |-> "float64",    s |-> <<>>, n |-> i, f |-> t]
NaN        == [k |-> "NaN",        s |-> <<>>, n |-> 0, f |-> 0]
Bool(b)    == [k |-> "bool",       s |-> <<>>, n |-> IF b THEN 1 ELSE 0, f |-> 0]
TS(d, ns)  == [k |-> "datetime64", s |-> <<>>, n |-> d, f |-> ns]
NaT        == [k |-> "NaT",        s |-> <<>>, n |-> 0, f |-> 0]

\* the null/missing markers of the three nullable column kinds
IsNull(c) == c.k \in {"NA", "NaN", "NaT"}

----------------------------------------------------------------------------
(* Text: digits, parsing and formatting.                                   *)

Digits == <<"0", "1", "2", "3", "4", "5", "6", "7", "8", "9">>

IsDigit(c) == \E i \in 1..10 : Digits[i] = c

DigitVal(c) == (CHOOSE i \in 1..10 : Digits[i] = c) - 1

AllDigits(s) == Len(s) > 0 /\ \A i \in 1..Len(s) : IsDigit(s[i])

RECURSIVE DigitsVal(_)
DigitsVal(s) ==
    IF Len(s) = 0 THEN 0
    ELSE 10 * DigitsVal(SubSeq(s, 1, Len(s) - 1)) + DigitVal(s[Len(s)])

RECURSIVE IntToStr(_)
IntToStr(i) ==
    IF i < 10 THEN <<Digits[i + 1]>>
    ELSE Append(IntToStr(i \div 10), Digits[(i % 10) + 1])

\* position of the first "." of s, 0 when there is none
DotAt(s) ==
    IF \E i \in 1..Len(s) : s[i] = "."
    THEN CHOOSE i \in 1..Len(s) : s[i] = "." /\ \A j \in 1..(i - 1) : s[j] # "."
    ELSE 0

\* pd.to_numeric of one text: an integer literal, a decimal literal with one
\* fractional digit (the resolution of F64), or not a number.
ParseNumber(s) ==
    LET d == DotAt(s) IN
    IF AllDigits(s) THEN [ok |-> TRUE, int |-> TRUE, n |-> DigitsVal(s), f |-> 0]
    ELSE IF /\ d > 1
            /\ Len(s) = d + 1
            /\ AllDigits(SubSeq(s, 1, d - 1))
            /\ IsDigit(s[d + 1])
         THEN [ok |-> TRUE, int |-> FALSE,
               n |-> DigitsVal(SubSeq(s, 1, d - 1)), f |-> DigitVal(s[d + 1])]
         ELSE [ok |-> FALSE, int |-> FALSE, n |-> 0, f |-> 0]

\* pd.to_datetime of one text: yyyy-mm-dd with a month 1..12 and a day 1..31
ParseDate(s) ==
    IF /\ Len(s) = 10
       /\ s[5] = "-" /\ s[8] = "-"
       /\ AllDigits(SubSeq(s, 1, 4))
       /\ AllDigits(SubSeq(s, 6, 7))
       /\ AllDigits(SubSeq(s, 9, 10))
       /\ DigitsVal(SubSeq(s, 6, 7)) \in 1..12
       /\ DigitsVal(SubSeq(s, 9, 10)) \in 1..31
    THEN [ok |-> TRUE,
          d |-> 10000 * DigitsVal(SubSeq(s, 1, 4))
                + 100 * DigitsVal(SubSeq(s, 6, 7))
                + DigitsVal(SubSeq(s, 9, 10))]
    ELSE [ok |-> FALSE, d |-> 0]

----------------------------------------------------------------------------
(* Casting a column (helper.py:139-159).                                   *)

TypeTags == {"INTEGER", "FLOAT", "STRING", "BOOLEAN", "TIMESTAMP", "BYTES"}

\* pd.to_numeric(column, errors='coerce') on one cell
ToNumeric(c) ==
    CASE c.k = "str"     -> ParseNumber(c.s)
      [] c.k = "int"     -> [ok |-> TRUE,  int |-> TRUE,  n |-> c.n, f |-> 0]
      [] c.k = "bool"    -> [ok |-> TRUE,  int |-> TRUE,  n |-> c.n, f |-> 0]
      [] c.k = "Int64"   -> [ok |-> TRUE,  int |-> TRUE,  n |-> c.n, f |-> 0]
      [] c.k = "float64" -> [ok |-> TRUE,  int |-> FALSE, n |-> c.n, f |-> c.f]
      [] OTHER           -> [ok |-> FALSE, int |-> FALSE, n |-> 0,   f |-> 0]

\* .astype('Int64') refuses a float column holding a value with a fractional
\* part ("cannot safely cast non-equivalent float64 to int64")
Int64Refuses(column) ==
    \E i \in 1..Len(column) : ToNumeric(column[i]).ok /\ ToNumeric(column[i]).f # 0

ToInt64(c) == IF ToNumeric(c).ok THEN I64(ToNumeric(c).n) ELSE NA

ToFloat(c) == IF ToNumeric(c).ok THEN F64(ToNumeric(c).n, ToNumeric(c).f) ELSE NaN

\* ToStr with repr(value) for a text, which quotes it
ToRepr(c) ==
    CASE c.k = "str"  -> Str(<<"'">> \o c.s \o <<"'">>)
      [] c.k = "int"  -> Str(IntToStr(c.n))
      [] c.k = "None" -> Str(<<"N", "o", "n", "e">>)
      [] c.k = "bool" -> IF c.n = 1 THEN Str(<<"T", "r", "u", "e">>)
                                    ELSE Str(<<"F", "a", "l", "s", "e">>)

\* str(value)
ToStr(c) ==
    CASE c.k = "str"  -> c
      [] c.k = "int"  -> Str(IntToStr(c.n))
      [] c.k = "None" -> Str(<<"N", "o", "n", "e">>)
      [] c.k = "bool" -> IF c.n = 1 THEN Str(<<"T", "r", "u", "e">>)
                                    ELSE Str(<<"F", "a", "l", "s", "e">>)

\* bool(value)
ToBool(c) ==
    CASE c.k = "str"  -> Bool(Len(c.s) > 0)
      [] c.k = "int"  -> Bool(c.n # 0)
      [] c.k = "None" -> Bool(FALSE)
      [] c.k = "bool" -> c

\* pd.to_datetime(column, errors='coerce') on one cell; an integer counts
\* nanoseconds from 1970-01-01
ToDatetime(c) ==
    CASE c.k = "str"        -> IF ParseDate(c.s).ok THEN TS(ParseDate(c.s).d, 0) ELSE NaT
      [] c.k = "int"        -> TS(19700101, c.n)
      [] c.k = "datetime64" -> c
      [] OTHER              -> NaT

_cast_column(column, column_type) ==
    CASE column_type = "INTEGER" ->
            IF Int64Refuses(column)
            THEN [exc |-> "TypeError", cells |-> <<>>]
            ELSE [exc |-> "none", cells |-> [i \in 1..Len(column) |-> ToInt64(column[i])]]
      [] column_type = "FLOAT" ->
            [exc |-> "none", cells |-> [i \in 1..Len(column) |-> ToFloat(column[i])]]
      [] column_type = "STRING" ->
            [exc |-> "none", cells |-> [i \in 1..Len(column) |-> ToStr(column[i])]]
      [] column_type = "BOOLEAN" ->
            [exc |-> "none", cells |-> [i \in 1..Len(column) |-> ToBool(column[i])]]
      [] column_type = "TIMESTAMP" ->
            [exc |-> "none", cells |-> [i \in 1..Len(column) |-> ToDatetime(column[i])]]
      [] OTHER ->
            [exc |-> "none", cells |-> column]

----------------------------------------------------------------------------
(* Preparing a DataFrame (helper.py:121-137).  A table is a sequence of    *)
(* columns [name, cells]; a schema is a sequence of fields, each a record  *)
(* whose keys are among name, type and mode.                               *)

ColumnNames(df) == [i \in 1..Len(df) |-> df[i].name]

Range(s) == {s[i] : i \in 1..Len(s)}

WellFormed(sch) ==
    \A i \in 1..Len(sch) : "name" \in DOMAIN sch[i] /\ "type" \in DOMAIN sch[i]

\* {field['name']: field['type'] for field in schema}: the last field of a
\* name decides its type
schema_dict(sch) ==
    [nm \in {sch[i].name : i \in 1..Len(sch)} |->
        LET last == CHOOSE i \in 1..Len(sch) :
                        /\ sch[i].name = nm
                        /\ \A j \in (i + 1)..Len(sch) : sch[j].name # nm
        IN sch[last].type]

\* columns_to_keep built by walking the schema's fields instead of df.columns
columns_in_schema_order(df, sch) ==
    LET sel == SelectSeq(sch, LAMBDA fld : fld.name \in Range(ColumnNames(df))) IN
    [i \in 1..Len(sel) |-> df[CHOOSE k \in 1..Len(df) : df[k].name = sel[i].name]]

\* df[columns_to_keep]: a new table holding the kept columns, in df's order
columns_to_keep(df, sch) ==
    SelectSeq(df, LAMBDA col : col.name \in DOMAIN schema_dict(sch))

\* the loop of lines 133-135 on the restricted table
CastAll(kept, sch) ==
    [i \in 1..Len(kept) |->
        [name  |-> kept[i].name,
         cells |-> _cast_column(kept[i].cells, schema_dict(sch)[kept[i].name]).cells]]

_prepare_dataframe(df, sch) ==
    IF ~WellFormed(sch)
    THEN [exc |-> "KeyError", table |-> <<>>]
    ELSE LET kept == columns_to_keep(df, sch) IN
         IF \E i \in 1..Len(kept) :
                _cast_column(kept[i].cells, schema_dict(sch)[kept[i].name]).exc # "none"
         THEN [exc |-> "TypeError", table |-> <<>>]
         ELSE [exc |-> "none", table |-> CastAll(kept, sch)]

----------------------------------------------------------------------------
(* _prepare_dataframe on objects.  df[columns_to_keep] (line 131) makes a  *)
(* new DataFrame object and rebinds the local name df to it; the item      *)
(* assignments of line 135 write into that new object; line 137 returns    *)
(* it.  A KeyError leaves line 129 before any object is made, a TypeError  *)
(* leaves line 135 and the new object is dropped.                          *)

NoCall == [arg |-> 0, exc |-> "nocall", ref |-> 0]

\* PrepareOnHeap writing the kept and cast columns into the caller's object
PrepareInPlace(h, arg, sch) ==
    LET r == _prepare_dataframe(h[arg], sch) IN
    IF r.exc = "none"
    THEN [heap |-> [h EXCEPT ![arg] = r.table],
          ret  |-> [arg |-> arg, exc |-> "none", ref |-> arg]]
    ELSE [heap |-> h,
          ret  |-> [arg |-> arg, exc |-> r.exc, ref |-> 0]]

PrepareOnHeap(h, arg, sch) ==
    LET r == _prepare_dataframe(h[arg], sch) IN
    IF r.exc = "none"
    THEN [heap |-> Append(h, r.table),
          ret  |-> [arg |-> arg, exc |-> "none", ref |-> Len(h) + 1]]
    ELSE [heap |-> h,
          ret  |-> [arg |-> arg, exc |-> r.exc, ref |-> 0]]

\* _prepare_dataframe(df, schema) on the caller's input table
PrepareInput ==
    /\ calls < MaxCalls
    /\ Len(heap) >= 1
    /\ heap' = PrepareOnHeap(heap, 1, schema).heap
    /\ ret' = PrepareOnHeap(heap, 1, schema).ret
    /\ calls' = calls + 1
    /\ UNCHANGED <<schema, helperVars>>

\* _prepare_dataframe(result, schema) on the table the last call returned
PrepareResult ==
    /\ calls < MaxCalls
    /\ ret.exc = "none"
    /\ heap' = PrepareOnHeap(heap, ret.ref, schema).heap
    /\ ret' = PrepareOnHeap(heap, ret.ref, schema).ret
    /\ calls' = calls + 1
    /\ UNCHANGED <<schema, helperVars>>

----------------------------------------------------------------------------
(* The helper object and its credentials (helper.py:17-54).                *)

BigQueryScope == <<"https://www.googleapis.com/auth/bigquery">>

NoCredentials == [via |-> "none", src |-> "none", scopes |-> <<>>]

NoClient == [project |-> "none", credentials |-> NoCredentials]

\* bigquery.Client(project=..., credentials=...)
Client(project, creds) == [project |-> project, credentials |-> creds]

\* how an operation ends: the value it returns or the exception it raises,
\* and the external calls it made, in order
Return(v, cs) == [how |-> "return", value |-> v, exc |-> "none", calls |-> cs]
Raise(e, cs)  == [how |-> "raise", value |-> "none", exc |-> e, calls |-> cs]

\* _get_credentials without its else branch: any other shape is passed on
get_credentials_no_else(c, loaded) ==
    CASE c.shape = "str" ->
            IF loaded
            THEN [exc |-> "none",
                  cred |-> [via |-> "from_service_account_file", src |-> c.v,
                            scopes |-> BigQueryScope]]
            ELSE [exc |-> "LoaderError", cred |-> NoCredentials]
      [] c.shape = "dict" ->
            IF loaded
            THEN [exc |-> "none",
                  cred |-> [via |-> "from_service_account_info", src |-> c.v,
                            scopes |-> BigQueryScope]]
            ELSE [exc |-> "LoaderError", cred |-> NoCredentials]
      [] OTHER ->
            [exc |-> "none", cred |-> [via |-> "as_is", src |-> c.v, scopes |-> <<>>]]

\* c is the credentials argument, [shape, v]: shape is its Python type.
\* loaded tells whether the service-account loader accepted the file or
\* the mapping (it raises its own error otherwise).
_get_credentials(c, loaded) ==
    CASE c.shape = "str" ->
            IF loaded
            THEN [exc |-> "none",
                  cred |-> [via |-> "from_service_account_file", src |-> c.v,
                            scopes |-> BigQueryScope]]
            ELSE [exc |-> "LoaderError", cred |-> NoCredentials]
      [] c.shape = "dict" ->
            IF loaded
            THEN [exc |-> "none",
                  cred |-> [via |-> "from_service_account_info", src |-> c.v,
                            scopes |-> BigQueryScope]]
            ELSE [exc |-> "LoaderError", cred |-> NoCredentials]
      [] c.shape = "Credentials" ->
            [exc |-> "none", cred |-> [via |-> "as_is", src |-> c.v, scopes |-> <<>>]]
      [] OTHER ->
            [exc |-> "ValueError", cred |-> NoCredentials]

\* BigQueryHelper(project_id, credentials): the object exists for the caller
\* only when __init__ returns
__init__(p, c, loaded) ==
    LET g == _get_credentials(c, loaded) IN
    IF g.exc # "none"
    THEN [constructed |-> FALSE, project_id |-> "none",
          credentials |-> NoCredentials, client |-> NoClient,
          end |-> Raise(g.exc, <<>>)]
    ELSE [constructed |-> TRUE, project_id |-> p,
          credentials |-> g.cred, client |-> Client(p, g.cred),
          end |-> Return("BigQueryHelper",
                         <<[op |-> "Client", project |-> p, credentials |-> g.cred]>>)]

\* set_project_id that keeps the client it had
set_project_id_stale_client(self, p) ==
    [project_id |-> p, credentials |-> self.credentials,
     client |-> self.client,
     end |-> Return("None", <<>>)]

set_project_id(self, p) ==
    [project_id |-> p, credentials |-> self.credentials,
     client |-> Client(p, self.credentials),
     end |-> Return("None",
                    <<[op |-> "Client", project |-> p,
                       credentials |-> self.credentials]>>)]

----------------------------------------------------------------------------
(* The pass-through operations (helper.py:56-119, 161-202).  out gives the *)
(* outcome of each external call the operation may make: "ok", a           *)
(* "GoogleCloudError" raised by the call, or an "OtherError" raised by it  *)
(* that is no GoogleCloudError.                                            *)

QueryCall(self, sql) == [op |-> "query", client |-> self.client, sql |-> sql]
ResultCall == [op |-> "result"]

\* execute_query that sends the query a second time when the first one fails
execute_query_retrying(self, query, out) ==
    IF out.query = "GoogleCloudError"
    THEN Return("None", <<QueryCall(self, query), QueryCall(self, query)>>)
    ELSE IF out.query # "ok" THEN Raise(out.query, <<QueryCall(self, query)>>)
    ELSE IF out.result = "GoogleCloudError"
         THEN Return("None", <<QueryCall(self, query), ResultCall>>)
    ELSE IF out.result # "ok"
         THEN Raise(out.result, <<QueryCall(self, query), ResultCall>>)
    ELSE Return("RowIterator", <<QueryCall(self, query), ResultCall>>)

execute_query(self, query, out) ==
    IF out.query = "GoogleCloudError" THEN Return("None", <<QueryCall(self, query)>>)
    ELSE IF out.query # "ok" THEN Raise(out.query, <<QueryCall(self, query)>>)
    ELSE IF out.result = "GoogleCloudError"
         THEN Return("None", <<QueryCall(self, query), ResultCall>>)
    ELSE IF out.result # "ok"
         THEN Raise(out.result, <<QueryCall(self, query), ResultCall>>)
    ELSE Return("RowIterator", <<QueryCall(self, query), ResultCall>>)

\* insert_rows that logs the returned errors and does not raise
insert_rows_ignoring_errors(self, table_id, rows_to_insert, out) ==
    LET cs == <<[op |-> "insert_rows_json", client |-> self.client,
                 table_id |-> table_id, rows |-> rows_to_insert]>> IN
    CASE out.insert_rows_json \in {"no_errors", "errors"} -> Return("None", cs)
      [] OTHER -> Raise(out.insert_rows_json, cs)

insert_rows(self, table_id, rows_to_insert, out) ==
    LET cs == <<[op |-> "insert_rows_json", client |-> self.client,
                 table_id |-> table_id, rows |-> rows_to_insert]>> IN
    CASE out.insert_rows_json = "no_errors" -> Return("None", cs)
      [] out.insert_rows_json = "errors"    -> Raise("GoogleCloudError", cs)
      [] OTHER                              -> Raise(out.insert_rows_json, cs)

query_to_dataframe(self, query, out) ==
    LET r == execute_query(self, query, out) IN
    IF r.how = "raise" THEN r
    ELSE IF r.value = "None" THEN Return("None", r.calls)
    ELSE IF out.to_dataframe = "ok"
         THEN Return("DataFrame", Append(r.calls, [op |-> "to_dataframe"]))
         ELSE Raise(out.to_dataframe, Append(r.calls, [op |-> "to_dataframe"]))

\* dataframe_to_table that prepares a table and uploads the df it was given
dataframe_to_table_unprepared(self, df, table_id, sch, if_exists, out) ==
    LET truthy == sch.given /\ Len(sch.fields) > 0
        r      == IF truthy THEN _prepare_dataframe(df, sch.fields)
                            ELSE [exc |-> "none", table |-> df]
        cs     == <<[op |-> "to_gbq", df |-> df, table_id |-> table_id,
                     project_id |-> self.project_id,
                     credentials |-> self.credentials,
                     if_exists |-> if_exists, table_schema |-> sch]>>
    IN
    IF r.exc # "none" THEN Raise(r.exc, <<>>)
    ELSE IF out.to_gbq = "ok" THEN Return("None", cs)
    ELSE Raise(out.to_gbq, cs)

\* schema is [given, fields]: given is FALSE for None
dataframe_to_table(self, df, table_id, sch, if_exists, out) ==
    LET truthy == sch.given /\ Len(sch.fields) > 0
        r      == IF truthy THEN _prepare_dataframe(df, sch.fields)
                            ELSE [exc |-> "none", table |-> df]
        cs     == <<[op |-> "to_gbq", df |-> r.table, table_id |-> table_id,
                     project_id |-> self.project_id,
                     credentials |-> self.credentials,
                     if_exists |-> if_exists, table_schema |-> sch]>>
    IN
    IF r.exc # "none" THEN Raise(r.exc, <<>>)
    ELSE IF out.to_gbq = "ok" THEN Return("None", cs)
    ELSE Raise(out.to_gbq, cs)

\* the text of the UPDATE statement, as a sequence of pieces ("BQ" stands
\* for a backquote, "LP" and "RP" for the parentheses)
RECURSIVE JoinValues(_)
JoinValues(vs) ==
    IF Len(vs) = 0 THEN <<>>
    ELSE LET v == IF vs[1].k = "str" THEN <<"'">> \o vs[1].s \o <<"'">>
                                     ELSE IntToStr(vs[1].n)
         IN IF Len(vs) = 1 THEN v ELSE v \o <<", ">> \o JoinValues(Tail(vs))

update_column(self, table_id, column_to_check, new_value_column, values_to_match, out) ==
    LET dml == <<"UPDATE ", "BQ", table_id, "BQ", " SET ", "BQ", new_value_column, "BQ",
                 " = @new_value WHERE ", "BQ", column_to_check, "BQ", " IN ", "LP">>
               \o JoinValues(values_to_match) \o <<"RP">>
    IN
    IF out.query # "ok" THEN Raise(out.query, <<QueryCall(self, dml)>>)
    ELSE IF out.result # "ok" THEN Raise(out.result, <<QueryCall(self, dml), ResultCall>>)
    ELSE Return("None", <<QueryCall(self, dml), ResultCall>>)

run_query(self, query, out) ==
    IF out.query # "ok" THEN Raise(out.query, <<QueryCall(self, query)>>)
    ELSE IF out.result # "ok" THEN Raise(out.result, <<QueryCall(self, query), ResultCall>>)
    ELSE Return("None", <<QueryCall(self, query), ResultCall>>)

get_schema(self, table_ref, out) ==
    LET cs == <<[op |-> "get_table", client |-> self.client, table_ref |-> table_ref]>> IN
    CASE out.get_table = "ok"               -> Return("schema", cs)
      [] out.get_table = "GoogleCloudError" -> Return("[]", cs)
      [] OTHER                              -> Raise(out.get_table, cs)

----------------------------------------------------------------------------
(* Inputs.                                                                 *)

SeqsUpTo(S, n) == UNION {[1..k -> S] : k \in 0..n}

Distinct(s) == \A i, j \in 1..Len(s) : i # j => s[i] # s[j]

ColNames == {"id", "name", "extra"}

IsoDate == <<"2", "0", "2", "0", "-", "0", "1", "-", "3", "1">>

\* raw cell values: integral and fractional numeric texts, a non-numeric
\* text, the empty text, a date, None and an integer
RawValues ==
    {Str(<<"1">>), Str(<<"3">>), Str(<<"1", ".", "5">>), Str(<<"3", ".", "0">>),
     Str(<<"x">>), Str(<<>>), Str(IsoDate), PyNone, PyInt(2)}

\* one-column tables over all raw values, with a one-field schema of any
\* type tag, well formed or not
NarrowTables ==
    {<<[name |-> "id", cells |-> cs]>> :
        cs \in UNION {[1..k -> RawValues] : k \in 1..MaxRows}}

NarrowSchemas ==
    {<<f>> : f \in {[name |-> nm, type |-> t] : nm \in {"id", "name"}, t \in TypeTags}
                   \cup {[name |-> "id", type |-> "INTEGER", mode |-> "NULLABLE"],
                         [name |-> "id"], [type |-> "INTEGER"]}}

\* many-column tables of one row, with schemas of several fields
WideValues == {Str(<<"1">>), Str(<<"1", ".", "5">>)}

WideTypes == {"INTEGER", "STRING"}

WideTables ==
    {t \in SeqsUpTo([name : ColNames, cells : [1..1 -> WideValues]], MaxCols) :
        Distinct(ColumnNames(t))}

WideSchemas == SeqsUpTo([name : ColNames, type : WideTypes], MaxFields)

\* the worked example: id = ["1", "x", "3"], name = [1, 2, 3],
\* extra = ["a", "b", "c"] under [id INTEGER, name STRING]
ExampleTable ==
    <<[name |-> "id",    cells |-> <<Str(<<"1">>), Str(<<"x">>), Str(<<"3">>)>>],
      [name |-> "name",  cells |-> <<PyInt(1), PyInt(2), PyInt(3)>>],
      [name |-> "extra", cells |-> <<Str(<<"a">>), Str(<<"b">>), Str(<<"c">>)>>]>>

ExampleSchema ==
    <<[name |-> "id", type |-> "INTEGER"], [name |-> "name", type |-> "STRING"]>>

Projects == {"test-project", "other-project"}

CredentialInputs ==
    {[shape |-> "str",         v |-> "key.json"],
     [shape |-> "dict",        v |-> "service_account_info"],
     [shape |-> "Credentials", v |-> "credentials_object"],
     [shape |-> "int",         v |-> "42"],
     [shape |-> "NoneType",    v |-> "None"]}

Outcomes == {"ok", "GoogleCloudError", "OtherError"}

\* a call after a failed one is not made: its outcome is left at "ok"
QueryOutcomes ==
    {o \in [query : Outcomes, result : Outcomes] : o.query # "ok" => o.result = "ok"}

FrameOutcomes ==
    {o \in [query : Outcomes, result : Outcomes, to_dataframe : Outcomes] :
        /\ o.query # "ok" => o.result = "ok"
        /\ (o.query # "ok" \/ o.result # "ok") => o.to_dataframe = "ok"}

Queries == {<<"SELECT * FROM table">>, <<"SELECT 1">>}

TableIds == {"project.dataset.table", "test_dataset.test_table"}

RowSets == {<<>>, <<[col1 |-> "val1"], [col1 |-> "val2"]>>}

IfExists == {"append", "replace", "fail"}

UploadTables ==
    {ExampleTable,
     <<[name |-> "id", cells |-> <<Str(<<"1", ".", "5">>), Str(<<"x">>)>>]>>,
     <<[name |-> "extra", cells |-> <<Str(<<"a">>)>>]>>}

UploadSchemas ==
    {[given |-> FALSE, fields |-> <<>>],
     [given |-> TRUE,  fields |-> <<>>],
     [given |-> TRUE,  fields |-> ExampleSchema],
     [given |-> TRUE,  fields |-> <<[name |-> "id", type |-> "FLOAT"]>>],
     [given |-> TRUE,  fields |-> <<[name |-> "id"]>>]}

MatchValues == {<<>>, <<Str(<<"a">>)>>, <<Str(<<"a">>), PyInt(12)>>}

----------------------------------------------------------------------------
(* The helper as a state machine: one action per method.                   *)

Self == [project_id |-> project_id, credentials |-> credentials, client |-> client]

Op(name, args, out, end) ==
    [name |-> name, args |-> args, out |-> out,
     how |-> end.how, value |-> end.value, exc |-> end.exc, calls |-> end.calls]

NoOp == Op("none", <<>>, <<>>, Return("none", <<>>))

InitHelper ==
    /\ constructed = FALSE
    /\ project_id = "none"
    /\ credentials = NoCredentials
    /\ client = NoClient
    /\ lastOp = NoOp

Construct ==
    /\ ~constructed
    /\ \E p \in Projects, c \in CredentialInputs, loaded \in BOOLEAN :
        LET r == __init__(p, c, loaded) IN
        /\ constructed' = r.constructed
        /\ project_id' = r.project_id
        /\ credentials' = r.credentials
        /\ client' = r.client
        /\ lastOp' = Op("__init__", [project_id |-> p, credentials |-> c],
                        [loaded |-> loaded], r.end)
    /\ UNCHANGED conformVars

SetProjectId ==
    /\ constructed
    /\ \E p \in Projects :
        LET r == set_project_id(Self, p) IN
        /\ project_id' = r.project_id
        /\ credentials' = r.credentials
        /\ client' = r.client
        /\ lastOp' = Op("set_project_id", [project_id |-> p], <<>>, r.end)
    /\ UNCHANGED <<constructed, conformVars>>

ExecuteQuery ==
    /\ constructed
    /\ \E q \in Queries, out \in QueryOutcomes :
        lastOp' = Op("execute_query", [query |-> q], out, execute_query(Self, q, out))
    /\ UNCHANGED <<constructed, project_id, credentials, client, conformVars>>

InsertRows ==
    /\ constructed
    /\ \E t \in TableIds, rows \in RowSets,
          out \in [insert_rows_json : {"no_errors", "errors", "GoogleCloudError", "OtherError"}] :
        lastOp' = Op("insert_rows", [table_id |-> t, rows |-> rows], out,
                     insert_rows(Self, t, rows, out))
    /\ UNCHANGED <<constructed, project_id, credentials, client, conformVars>>

QueryToDataframe ==
    /\ constructed
    /\ \E q \in Queries, out \in FrameOutcomes :
        lastOp' = Op("query_to_dataframe", [query |-> q], out,
                     query_to_dataframe(Self, q, out))
    /\ UNCHANGED <<constructed, project_id, credentials, client, conformVars>>

DataframeToTable ==
    /\ constructed
    /\ \E df \in UploadTables, t \in TableIds, sch \in UploadSchemas,
          ie \in IfExists, out \in [to_gbq : {"ok", "OtherError"}] :
        lastOp' = Op("dataframe_to_table",
                     [df |-> df, table_id |-> t, schema |-> sch, if_exists |-> ie],
                     out, dataframe_to_table(Self, df, t, sch, ie, out))
    /\ UNCHANGED <<constructed, project_id, credentials, client, conformVars>>

UpdateColumn ==
    /\ constructed
    /\ \E t \in TableIds, vs \in MatchValues, out \in QueryOutcomes :
        lastOp' = Op("update_column",
                     [table_id |-> t, column_to_check |-> "id",
                      new_value_column |-> "name", values_to_match |-> vs],
                     out, update_column(Self, t, "id", "name", vs, out))
    /\ UNCHANGED <<constructed, project_id, credentials, client, conformVars>>

RunQuery ==
    /\ constructed
    /\ \E q \in Queries, out \in QueryOutcomes :
        lastOp' = Op("run_query", [query |-> q], out, run_query(Self, q, out))
    /\ UNCHANGED <<constructed, project_id, credentials, client, conformVars>>

GetSchema ==
    /\ constructed
    /\ \E t \in TableIds, out \in [get_table : Outcomes] :
        lastOp' = Op("get_schema", [table_ref |-> t], out, get_schema(Self, t, out))
    /\ UNCHANGED <<constructed, project_id, credentials, client, conformVars>>

Init ==
    /\ InitHelper
    /\ heap = <<>>
    /\ schema = <<>>
    /\ ret = NoCall
    /\ calls = 0

Next ==
    \/ Construct
    \/ SetProjectId
    \/ ExecuteQuery
    \/ InsertRows
    \/ QueryToDataframe
    \/ DataframeToTable
    \/ UpdateColumn
    \/ RunQuery
    \/ GetSchema

Spec == Init /\ [][Next]_vars

----------------------------------------------------------------------------
(* _prepare_dataframe applied to bounded inputs, and applied again to its  *)
(* own result or to the same input.                                        *)

InitConform ==
    /\ InitHelper
    /\ \/ \E t \in NarrowTables, sch \in NarrowSchemas : heap = <<t>> /\ schema = sch
       \/ \E t \in WideTables, sch \in WideSchemas : heap = <<t>> /\ schema = sch
       \/ heap = <<ExampleTable>> /\ schema = ExampleSchema
    /\ ret = NoCall
    /\ calls = 0

NextConform ==
    \/ PrepareInput
    \/ PrepareResult

SpecConform == InitConform /\ [][NextConform]_vars

----------------------------------------------------------------------------
(* Properties of _prepare_dataframe, checked under SpecConform.            *)

FieldNames(sch) == {sch[i].name : i \in 1..Len(sch)}

\* position of the column called nm in table t
ColumnAt(t, nm) == CHOOSE i \in 1..Len(t) : t[i].name = nm

\* a column that some INTEGER field of the schema names holds a numeric
\* value with a fractional part
FractionalUnderInteger(t, sch) ==
    \E i \in 1..Len(t), j \in 1..Len(sch) : \E r \in 1..Len(t[i].cells) :
        /\ sch[j].name = t[i].name
        /\ sch[j].type = "INTEGER"
        /\ t[i].cells[r].k = "str"
        /\ ParseNumber(t[i].cells[r].s).ok
        /\ ParseNumber(t[i].cells[r].s).f # 0

\* C1: when _prepare_dataframe(T, S) returns for a well-formed S, the columns
\* of the result are exactly the columns of T named by a field of S, in T's
\* order; a field of S absent from T adds no column and is never the cause of
\* an error, and a column of T absent from S is dropped: the only error of a
\* call with a well-formed schema comes from a retained INTEGER column.
C1_ColumnsOfResult ==
    (WellFormed(schema) /\ ret.exc # "nocall") =>
        LET T == heap[ret.arg] IN
        /\ ret.exc = "none" =>
            LET R == heap[ret.ref] IN
            /\ Distinct(ColumnNames(R))
            /\ Range(ColumnNames(R)) = Range(ColumnNames(T)) \cap FieldNames(schema)
            /\ \A i, j \in 1..Len(R) :
                i < j => ColumnAt(T, R[i].name) < ColumnAt(T, R[j].name)
        /\ ret.exc # "none" => FractionalUnderInteger(T, schema)

\* a call returned two columns in the input's order, the reverse of the
\* schema's order
C1_Witness ==
    /\ ret.exc = "none"
    /\ ret.arg = 1
    /\ Len(schema) = 2
    /\ WellFormed(schema)
    /\ Len(heap[ret.ref]) = 2
    /\ heap[ret.ref][1].name = schema[2].name
    /\ heap[ret.ref][2].name = schema[1].name

\* the type the schema gives the column called nm: that of the last field
TypeOf(sch, nm) ==
    LET last == CHOOSE i \in 1..Len(sch) :
                    sch[i].name = nm /\ \A j \in (i + 1)..Len(sch) : sch[j].name # nm
    IN sch[last].type

NumericText(c) == c.k = "str" /\ ParseNumber(c.s).ok

NonNumeric(c) == c.k = "str" /\ Len(c.s) > 0 /\ ~ParseNumber(c.s).ok

\* C2: for every retained column and row of a call on a raw table: an INTEGER
\* field and a valid numeric text give the parsed integer, an INTEGER or FLOAT
\* field and a non-numeric text give the null marker, and the column keeps its
\* rows.
C2_CellsOfNumericColumns ==
    (WellFormed(schema) /\ ret.arg = 1) =>
        \A i \in 1..Len(heap[1]) :
            heap[1][i].name \in FieldNames(schema) =>
                LET col == heap[1][i]
                    ty  == TypeOf(schema, col.name)
                IN \A r \in 1..Len(col.cells) :
                    /\ (ty = "INTEGER" /\ NumericText(col.cells[r])) =>
                        /\ ret.exc = "none"
                        /\ heap[ret.ref][ColumnAt(heap[ret.ref], col.name)].cells[r]
                               = I64(ParseNumber(col.cells[r].s).n)
                    /\ (ty \in {"INTEGER", "FLOAT"} /\ NonNumeric(col.cells[r])) =>
                        /\ ret.exc = "none"
                        /\ IsNull(heap[ret.ref][ColumnAt(heap[ret.ref], col.name)].cells[r])
                    /\ ret.exc = "none" =>
                        Len(heap[ret.ref][ColumnAt(heap[ret.ref], col.name)].cells)
                            = Len(col.cells)

\* C3: a call with a well-formed schema never raises, whatever the cell
\* values and the type tags are.
C3_NeverRaises ==
    WellFormed(schema) => ret.exc \in {"nocall", "none"}

\* C6: a call changes no existing DataFrame object (the input table keeps its
\* columns, their order and their cells through any number of calls), leaves
\* the schema as it was, and returns an object that did not exist before.
C6_InputsUntouched ==
    [][/\ Len(heap') >= Len(heap)
       /\ \A i \in 1..Len(heap) : heap'[i] = heap[i]
       /\ schema' = schema
       /\ ret'.exc = "none" => ret'.ref \notin 1..Len(heap)]_vars

\* a second call returned, and its result differs from the input table
C6_Witness ==
    /\ calls >= 2
    /\ ret.exc = "none"
    /\ ret.arg = 1
    /\ heap[ret.ref] # heap[1]

StableTypes == {"STRING", "BOOLEAN", "TIMESTAMP"}

\* C7: for a schema whose types are STRING, BOOLEAN or TIMESTAMP, preparing
\* the result of a call again returns a table equal to that result in
\* columns, their order and every cell.
C7_Idempotent ==
    (/\ WellFormed(schema)
     /\ \A i \in 1..Len(schema) : schema[i].type \in StableTypes
     /\ ret.arg > 1) =>
        /\ ret.exc = "none"
        /\ heap[ret.ref] = heap[ret.arg]

\* the second call was made on a result that the first call had changed
C7_Witness ==
    /\ WellFormed(schema)
    /\ \A i \in 1..Len(schema) : schema[i].type \in StableTypes
    /\ ret.arg > 1
    /\ ret.exc = "none"
    /\ Len(heap[ret.ref]) >= 1
    /\ heap[ret.arg] # heap[1]

----------------------------------------------------------------------------
(* Properties of the helper's operations, checked under Spec.              *)

ServiceOps == {"execute_query", "query_to_dataframe", "insert_rows", "get_schema"}

\* the operation received a GoogleCloudError from the service client
GotCloudError == \E k \in DOMAIN lastOp.out : lastOp.out[k] = "GoogleCloudError"

\* no service operation is called twice by one invocation
NoRetry ==
    \A i, j \in 1..Len(lastOp.calls) : i # j => lastOp.calls[i].op # lastOp.calls[j].op

\* C4 as stated: every GoogleCloudError raised by the service client during
\* execute_query, query_to_dataframe, insert_rows or get_schema ends the
\* operation with an error, never with a normal return, and no call is
\* retried.
C4_FailuresSurface ==
    lastOp.name \in ServiceOps =>
        /\ GotCloudError => lastOp.how = "raise"
        /\ NoRetry

\* C4 as the code has it: insert_rows re-raises the GoogleCloudError, and so
\* does query_to_dataframe when to_dataframe raises it; execute_query and
\* query_to_dataframe return None when query() or result() raises it, and
\* get_schema returns an empty list; an error that is no GoogleCloudError
\* reaches the caller as it is; the failed call is the last call of the
\* invocation and no service operation is called twice.
C4_FailuresByOperation ==
    lastOp.name \in ServiceOps =>
        /\ NoRetry
        /\ (lastOp.name = "insert_rows" /\ GotCloudError) =>
                lastOp.how = "raise" /\ lastOp.exc = "GoogleCloudError"
        /\ (lastOp.name = "execute_query" /\ GotCloudError) =>
                lastOp.how = "return" /\ lastOp.value = "None"
        /\ (lastOp.name = "query_to_dataframe" /\ GotCloudError) =>
                IF lastOp.out.to_dataframe = "GoogleCloudError"
                THEN lastOp.how = "raise" /\ lastOp.exc = "GoogleCloudError"
                ELSE lastOp.how = "return" /\ lastOp.value = "None"
        /\ (lastOp.name = "get_schema" /\ GotCloudError) =>
                lastOp.how = "return" /\ lastOp.value = "[]"
        /\ (\E k \in DOMAIN lastOp.out : lastOp.out[k] = "OtherError") =>
                lastOp.how = "raise" /\ lastOp.exc = "OtherError"
        /\ (\E k \in DOMAIN lastOp.out : lastOp.out[k] \in {"GoogleCloudError", "OtherError"}) =>
                LET k == CHOOSE k \in DOMAIN lastOp.out :
                             lastOp.out[k] \in {"GoogleCloudError", "OtherError"}
                IN lastOp.calls[Len(lastOp.calls)].op = k

\* get_schema received a GoogleCloudError from get_table and returned []
C4_Witness ==
    /\ lastOp.name = "get_schema"
    /\ lastOp.out.get_table = "GoogleCloudError"
    /\ lastOp.how = "return"
    /\ lastOp.value = "[]"
    /\ Len(lastOp.calls) = 1

\* C5: insert_rows calls insert_rows_json exactly once, on the helper's
\* client, with the given table id and the given rows; it returns if and only
\* if that call returned no errors, and raises a GoogleCloudError when the
\* call returned errors or raised a GoogleCloudError.
C5_InsertRows ==
    lastOp.name = "insert_rows" =>
        /\ lastOp.calls = <<[op |-> "insert_rows_json", client |-> client,
                             table_id |-> lastOp.args.table_id,
                             rows |-> lastOp.args.rows]>>
        /\ lastOp.how = "return" <=> lastOp.out.insert_rows_json = "no_errors"
        /\ lastOp.out.insert_rows_json \in {"errors", "GoogleCloudError"} =>
                lastOp.how = "raise" /\ lastOp.exc = "GoogleCloudError"

\* insert_rows_json returned errors for two rows and insert_rows raised
C5_Witness ==
    /\ lastOp.name = "insert_rows"
    /\ lastOp.out.insert_rows_json = "errors"
    /\ Len(lastOp.args.rows) = 2
    /\ lastOp.how = "raise"

CredentialShapes == {"str", "dict", "Credentials"}

\* C8: construction resolves the credentials by shape: a file path through
\* the file loader, a mapping through the info loader, a credential object as
\* it is, each giving the one credential object of the helper and of its
\* client; any other shape raises a ValueError, and whenever construction
\* raises, no client is built and no helper exists.
C8_CredentialsByShape ==
    lastOp.name = "__init__" =>
        LET c == lastOp.args.credentials IN
        /\ (c.shape = "str" /\ lastOp.out.loaded) =>
                /\ lastOp.how = "return"
                /\ credentials = [via |-> "from_service_account_file", src |-> c.v,
                                  scopes |-> BigQueryScope]
        /\ (c.shape = "dict" /\ lastOp.out.loaded) =>
                /\ lastOp.how = "return"
                /\ credentials = [via |-> "from_service_account_info", src |-> c.v,
                                  scopes |-> BigQueryScope]
        /\ c.shape = "Credentials" =>
                /\ lastOp.how = "return"
                /\ credentials = [via |-> "as_is", src |-> c.v, scopes |-> <<>>]
        /\ c.shape \notin CredentialShapes =>
                lastOp.how = "raise" /\ lastOp.exc = "ValueError"
        /\ lastOp.how = "return" =>
                /\ constructed
                /\ lastOp.calls = <<[op |-> "Client", project |-> lastOp.args.project_id,
                                     credentials |-> credentials]>>
        /\ lastOp.how = "raise" =>
                ~constructed /\ lastOp.calls = <<>> /\ client = NoClient

\* construction was given an integer for credentials and raised ValueError
C8_Witness ==
    /\ lastOp.name = "__init__"
    /\ lastOp.args.credentials.shape = "int"
    /\ lastOp.exc = "ValueError"
    /\ ~constructed

\* C9: with a non-empty schema, dataframe_to_table hands
\* _prepare_dataframe(df, schema) to to_gbq, in one call, with the table id,
\* the helper's project id and credentials, the if_exists policy and the
\* schema; when _prepare_dataframe raises, to_gbq is not called; with no
\* schema or an empty one, to_gbq receives df itself.
C9_PrepareBeforeUpload ==
    lastOp.name = "dataframe_to_table" =>
        LET a      == lastOp.args
            truthy == a.schema.given /\ Len(a.schema.fields) > 0
            r      == _prepare_dataframe(a.df, a.schema.fields)
            call(t) == [op |-> "to_gbq", df |-> t, table_id |-> a.table_id,
                        project_id |-> project_id, credentials |-> credentials,
                        if_exists |-> a.if_exists, table_schema |-> a.schema]
        IN
        /\ (truthy /\ r.exc = "none") => lastOp.calls = <<call(r.table)>>
        /\ (truthy /\ r.exc # "none") => lastOp.calls = <<>> /\ lastOp.how = "raise"
        /\ ~truthy => lastOp.calls = <<call(a.df)>>

\* to_gbq received a prepared table that differs from the df given
C9_Witness ==
    /\ lastOp.name = "dataframe_to_table"
    /\ lastOp.args.schema.given
    /\ Len(lastOp.calls) = 1
    /\ lastOp.calls[1].df # lastOp.args.df
    /\ Len(lastOp.calls[1].df) = 2

\* C10: the client of a constructed helper is the one built from its current
\* project_id and its credentials: construction builds it once from the
\* given project id and the resolved credentials, set_project_id(p) sets
\* project_id to p and builds a client from p and the same credentials, the
\* credentials never change once the helper exists, and no other operation
\* changes project_id, credentials or client.
C10_ClientFollowsProject ==
    [][/\ constructed' => client' = Client(project_id', credentials')
       /\ constructed => (constructed' /\ credentials' = credentials)
       /\ (lastOp'.name = "__init__" /\ constructed') =>
            /\ project_id' = lastOp'.args.project_id
            /\ lastOp'.calls = <<[op |-> "Client", project |-> project_id',
                                  credentials |-> credentials']>>
       /\ lastOp'.name = "set_project_id" =>
            /\ project_id' = lastOp'.args.project_id
            /\ lastOp'.calls = <<[op |-> "Client", project |-> project_id',
                                  credentials |-> credentials]>>
       /\ lastOp'.name \notin {"__init__", "set_project_id"} =>
            UNCHANGED <<project_id, credentials, client>>]_vars

\* set_project_id has moved a helper to the other project
C10_Witness ==
    /\ constructed
    /\ lastOp.name = "set_project_id"
    /\ project_id = "other-project"
    /\ client.project = "other-project"

====
